---- MODULE Spec2Model ----
(***************************************************************************)
(* A model of bevy_editor: the EditorPlugin systems (setup,                *)
(* editor_input_system, set_gizmo_mode, show_ui, set_camera_viewport), the *)
(* UiState they share, and the panels the dock area draws each frame.      *)
(***************************************************************************)
EXTENDS Integers, Sequences, FiniteSets, TLC

VARIABLES
    pc,             \* the schedule the app is about to run, or "Exited" / "Panicked"
    cameras,        \* camera entity -> [components, main, viewport]
    window,         \* the primary window, or NoWindow
    egui_settings,  \* bevy_egui::EguiSettings
    type_registry,  \* AppTypeRegistry, in iteration order
    assets,         \* asset type id -> set of live HandleIds
    editor,         \* EditorResource, or NoResource before setup inserts it
    ui_state,       \* UiState
    transforms,     \* entity -> Transform, or NoTransform
    app_exit,       \* an AppExit event has been sent
    trace,          \* history: what this frame's show_ui was given and did
    f1_presses,     \* history: frames so far in which F1 was just pressed
    moves           \* history: drag/drop gestures the dock tree has taken

vars == <<pc, cameras, window, egui_settings, type_registry, assets, editor, ui_state, transforms, app_exit, trace, f1_presses, moves>>

-----------------------------------------------------------------------------
(* Bounds of the model *)

\* F1 presses counted before the toggle key is no longer offered
MaxPresses == 2

\* drag/drop gestures on the dock tree before no further gesture is offered
MaxMoves == 1

-----------------------------------------------------------------------------
(* f32 values.  A finite value is a numerator over a fixed denominator:    *)
(* UI points and scale factors are counted in halves, their products in    *)
(* quarters.  Infinities are kept apart, as Rect::NOTHING is made of them.  *)

Fin(n) == [k |-> "fin", v |-> n]

PosInf == [k |-> "inf", v |-> 1]

NegInf == [k |-> "inf", v |-> -1]

NaN == [k |-> "nan", v |-> 0]

\* a - b on f32
FSub(a, b) ==
    IF a.k = "nan" \/ b.k = "nan" THEN NaN
    ELSE IF a.k = "inf" /\ b.k = "inf" THEN (IF a.v = b.v THEN NaN ELSE a)
    ELSE IF a.k = "inf" THEN a
    ELSE IF b.k = "inf" THEN [k |-> "inf", v |-> -(b.v)]
    ELSE Fin(a.v - b.v)

\* a * s on f32, s a finite scale factor in halves; the product is in quarters
FMul(a, s) ==
    IF a.k = "nan" THEN NaN
    ELSE IF a.k = "inf" THEN (IF s = 0 THEN NaN ELSE IF s > 0 THEN a ELSE [k |-> "inf", v |-> -(a.v)])
    ELSE Fin(a.v * s)

\* a u32 as its two 16-bit halves (TLC's integers are 32-bit signed, narrower
\* than u32); n is a natural below 2^31
U32(n) == [hi |-> n \div 65536, lo |-> n % 65536]

\* u32::MAX = 2^32 - 1
U32_MAX == [hi |-> 65535, lo |-> 65535]

\* `x as u32` that wraps a negative value instead of saturating at 0
AsU32_wrap(q) ==
    IF q.k = "nan" THEN U32(0)
    ELSE IF q.k = "inf" THEN (IF q.v > 0 THEN U32_MAX ELSE U32(0))
    ELSE IF q.v < 0 THEN [hi |-> 65535, lo |-> 65536 - (((-(q.v)) \div 4) % 65536)]
    ELSE U32(q.v \div 4)

\* Rust `x as u32` of an f32 counted in quarters: truncates toward zero,
\* saturates at the ends of the range, NaN gives 0.  The finite values of
\* the model are below 2^31 quarters, so only an infinity reaches u32::MAX.
AsU32(q) ==
    IF q.k = "nan" THEN U32(0)
    ELSE IF q.k = "inf" THEN (IF q.v > 0 THEN U32_MAX ELSE U32(0))
    ELSE IF q.v < 0 THEN U32(0)
    ELSE U32(q.v \div 4)

\* egui::Rect::NOTHING: min = (+inf, +inf), max = (-inf, -inf)
Rect_NOTHING == [min_x |-> PosInf, min_y |-> PosInf, max_x |-> NegInf, max_y |-> NegInf]

\* a finite rectangle from its left-top corner and size, all in half points
RectXYWH(x, y, w, h) == [min_x |-> Fin(x), min_y |-> Fin(y), max_x |-> Fin(x + w), max_y |-> Fin(y + h)]

Rect_left_top(r) == [x |-> r.min_x, y |-> r.min_y]

Rect_size(r) == [x |-> FSub(r.max_x, r.min_x), y |-> FSub(r.max_y, r.min_y)]

-----------------------------------------------------------------------------
(* The dock tree: egui_dock keeps the binary tree as a vector in heap      *)
(* order; node index i is element i + 1 here.                              *)

Tabs == {"GameView", "Inspector", "Hierarchy", "Resources", "Assets"}

EmptyNode == [kind |-> "Empty", tabs |-> <<>>, active |-> 0, fraction |-> 0]

LeafNode(tabs) == [kind |-> "Leaf", tabs |-> tabs, active |-> 1, fraction |-> 0]

SplitNode(kind, fraction) == [kind |-> kind, tabs |-> <<>>, active |-> 0, fraction |-> fraction]

NodeLeft(i) == 2 * i + 1

NodeRight(i) == 2 * i + 2

NodeParent(i) == (i - 1) \div 2

\* the node at index i; past the end of the vector there is nothing
NodeAt(tree, i) == IF i + 1 \in DOMAIN tree THEN tree[i + 1] ELSE EmptyNode

\* the tree with node i set, the vector grown with Empty nodes as needed
SetNode(tree, i, node) ==
    LET n == IF i + 1 > Len(tree) THEN i + 1 ELSE Len(tree)
    IN  [j \in 1..n |-> IF j = i + 1 THEN node ELSE IF j <= Len(tree) THEN tree[j] ELSE EmptyNode]

\* Tree::new(vec![...])
Tree_new(tabs) == <<LeafNode(tabs)>>

\* Tree::split: the parent becomes a split node, the old leaf and the new one
\* become its children; Left/Above put the new leaf first
Tree_split(tree, parent, split, fraction, tabs) ==
    LET old    == NodeAt(tree, parent)
        kind   == IF split \in {"Left", "Right"} THEN "Horizontal" ELSE "Vertical"
        oldIdx == IF split \in {"Left", "Above"} THEN NodeRight(parent) ELSE NodeLeft(parent)
        newIdx == IF split \in {"Left", "Above"} THEN NodeLeft(parent) ELSE NodeRight(parent)
        t1     == SetNode(tree, parent, SplitNode(kind, fraction))
        t2     == SetNode(t1, oldIdx, old)
        t3     == SetNode(t2, newIdx, LeafNode(tabs))
    IN  [tree |-> t3, old |-> oldIdx, new |-> newIdx]

\* the tabs of the tree, leaf after leaf in index order
RECURSIVE TreeTabsFrom(_, _)
TreeTabsFrom(tree, j) ==
    IF j > Len(tree) THEN <<>>
    ELSE tree[j].tabs \o TreeTabsFrom(tree, j + 1)

TreeTabs(tree) == TreeTabsFrom(tree, 1)

\* how many times tab occurs in the tree
TabCount(tree, tab) == Cardinality({i \in DOMAIN TreeTabs(tree) : TreeTabs(tree)[i] = tab})

-----------------------------------------------------------------------------
(* UiState *)

\* InspectorSelection
Sel_Entities == <<"Entities">>

Sel_Resource(type_id, name) == <<"Resource", type_id, name>>

Sel_Asset(type_id, name, handle) == <<"Asset", type_id, name, handle>>

\* the tree built by the mutated constructor: Assets is forgotten and
\* Resources is listed twice
UiState_new_tree_dup ==
    LET s1 == Tree_split(Tree_new(<<"GameView">>), 0, "Right", 75, <<"Inspector">>)
        s2 == Tree_split(s1.tree, s1.old, "Left", 20, <<"Hierarchy">>)
        s3 == Tree_split(s2.tree, s2.old, "Below", 80, <<"Resources", "Resources">>)
    IN  s3.tree

\* the tree UiState::new builds
UiState_new_tree ==
    LET s1 == Tree_split(Tree_new(<<"GameView">>), 0, "Right", 75, <<"Inspector">>)
        s2 == Tree_split(s1.tree, s1.old, "Left", 20, <<"Hierarchy">>)
        s3 == Tree_split(s2.tree, s2.old, "Below", 80, <<"Resources", "Assets">>)
    IN  s3.tree

\* UiState::new
UiState_new ==
    [tree              |-> UiState_new_tree,
     selected_entities |-> <<>>,
     selection         |-> Sel_Entities,
     viewport_rect     |-> Rect_NOTHING,
     gizmo_mode        |-> "Translate"]

-----------------------------------------------------------------------------
(* The world the editor runs in *)

NoResource == [present |-> FALSE, mode |-> FALSE]

\* EditorResource(b)
EditorResource(b) == [present |-> TRUE, mode |-> b]

NoWindow == [present |-> FALSE, egui_context |-> FALSE, physical_width |-> 0, physical_height |-> 0, scale_factor |-> 0]

\* a primary window; scale_factor is counted in halves
Window(w, h, sf, ctx) == [present |-> TRUE, egui_context |-> ctx, physical_width |-> w, physical_height |-> h, scale_factor |-> sf]

NoViewport == [some |-> FALSE, physical_position |-> <<U32(0), U32(0)>>, physical_size |-> <<U32(0), U32(0)>>, depth |-> <<0, 0>>]

\* Some(Viewport { physical_position, physical_size, depth })
Viewport(pos, size, depth) == [some |-> TRUE, physical_position |-> pos, physical_size |-> size, depth |-> depth]

\* a camera entity: the projection components it carries, whether it carries
\* MainCamera, and Camera.viewport
CameraEntity(components, main) == [components |-> components, main |-> main, viewport |-> NoViewport]

\* the objects of the scene the hierarchy lists
Objects == {1, 2}

NoTransform == [some |-> FALSE, translation |-> 0, rotation |-> 0, scale |-> 0]

\* Transform { translation, rotation, scale }
Transform(t, r, s) == [some |-> TRUE, translation |-> t, rotation |-> r, scale |-> s]

\* the transform every object starts with
T0 == Transform(1, 1, 1)

\* what a drag of the gizmo can return: absolute values, none equal to T0's
GizmoResults == <<[translation |-> 5, rotation |-> 6, scale |-> 7], [translation |-> 8, rotation |-> 1, scale |-> 9]>>

\* what a call of draw_gizmo did: the camera path it took, whether it computed
\* the matrices, read the selected object's transform, let the gizmo
\* interact, wrote a transform back, or failed the unwrap of the write-back
GizmoIdle == [path |-> "none", matrices |-> FALSE, interacted |-> FALSE, wrote |-> FALSE, selected |-> <<>>, read |-> FALSE, unwrap_failed |-> FALSE]

\* what the Inspector panel did: the editor it called, the selected objects
\* and the type id it passed, and the objects whose fields the editor showed
InspectorIdle == [editor |-> "none", entities |-> <<>>, target |-> 0, fields |-> {}]

\* the trace of a frame in which no panel has drawn
\* kb: the keys just pressed, from Update until show_ui; ev: the pointer
\* event of a show_ui that drew the panels; before: the InspectorSelection
\* it started with; drawn: the tabs it drew; hierarchy_selected: what
\* hierarchy_ui returned; gizmo: what draw_gizmo did and the selection it
\* saw; inspector: what the Inspector panel did; rect: where the layout of
\* the frame put the GameView tab
TraceIdle ==
    [kb |-> {}, ev |-> [kind |-> "none", a |-> 0, b |-> 0, c |-> 0, d |-> 0], before |-> <<"Entities">>, drawn |-> {},
     hierarchy_selected |-> FALSE, gizmo |-> GizmoIdle, inspector |-> InspectorIdle, rect |-> Rect_NOTHING]

\* a type registration: short_name is the byte string of the name; the type
\* ids of the model are numbered in the order the types were registered
Registration(type_id, short_name, data) == [type_id |-> type_id, short_name |-> short_name, data |-> data]

\* the registrations of the app: EditorResource and MainCamera (registered
\* by the plugin), one more resource and two asset types of the host
Registry ==
    <<Registration(1, <<69, 100>>, {"ReflectResource"}),
      Registration(2, <<77, 97>>, {"ReflectComponent"}),
      Registration(3, <<67, 108>>, {"ReflectResource"}),
      Registration(4, <<77, 101>>, {"ReflectAsset"}),
      Registration(5, <<73, 109>>, {"ReflectAsset"})>>

\* the live handles of each asset type
AssetIds == [t \in {4, 5} |-> IF t = 4 THEN {31, 30} ELSE {}]

-----------------------------------------------------------------------------
(* Lists the panels show *)

\* String::cmp: byte-wise lexicographic order, a proper prefix first
RECURSIVE NameLess(_, _)
NameLess(a, b) ==
    IF b = <<>> THEN FALSE
    ELSE IF a = <<>> THEN TRUE
    ELSE IF Head(a) # Head(b) THEN Head(a) < Head(b)
    ELSE NameLess(Tail(a), Tail(b))

\* one step of the stable sort: x goes after every element not greater than it
RECURSIVE InsertByName(_, _)
InsertByName(sorted, x) ==
    IF sorted = <<>> THEN <<x>>
    ELSE IF NameLess(x.short_name, Head(sorted).short_name) THEN <<x>> \o sorted
    ELSE <<Head(sorted)>> \o InsertByName(Tail(sorted), x)

\* slice::sort_by on the name: stable
RECURSIVE SortByName(_)
SortByName(s) ==
    IF s = <<>> THEN <<>>
    ELSE InsertByName(SortByName(SubSeq(s, 1, Len(s) - 1)), s[Len(s)])

\* the registrations of s that carry the type data d, in order
RECURSIVE FilterData(_, _)
FilterData(s, d) ==
    IF s = <<>> THEN <<>>
    ELSE (IF d \in Head(s).data THEN <<Head(s)>> ELSE <<>>) \o FilterData(Tail(s), d)

\* the elements of a set of numbers in ascending order (Vec::sort)
RECURSIVE SortedIds(_)
SortedIds(S) ==
    IF S = {} THEN <<>>
    ELSE LET m == CHOOSE x \in S : \A y \in S : x <= y
         IN  <<m>> \o SortedIds(S \ {m})

\* the entries the Resources panel lists (select_resource)
ResourceList(registry) == SortByName(FilterData(registry, "ReflectResource"))

\* the entries the Assets panel lists (select_asset)
AssetList(registry) == SortByName(FilterData(registry, "ReflectAsset"))

-----------------------------------------------------------------------------
(* What the pointer does in one frame.  One pointer lands on one widget:   *)
(* a frame has at most one of a hierarchy click, a resource click, an      *)
(* asset click, a gizmo drag and a dock gesture.                           *)

Event(kind, a, b, c, d) == [kind |-> kind, a |-> a, b |-> b, c |-> c, d |-> d]

NoEvent == Event("none", 0, 0, 0, 0)

\* a click on entity e in the hierarchy; add = 1 with the modifier held
HierarchyClick(e, add) == Event("hierarchy", e, add, 0, 0)

\* a click on the i-th entry of the resource list
ResourceClick(i) == Event("resource", i, 0, 0, 0)

\* a click on the j-th handle of the i-th entry of the asset list
AssetClick(i, j) == Event("asset", i, j, 0, 0)

\* a drag of the gizmo that makes it return the i-th of GizmoResults
GizmoDrag(i) == Event("gizmo", i, 0, 0, 0)

\* an edit of the translation field the Inspector shows: the value typed is v
InspectorEdit(v) == Event("edit", v, 0, 0, 0)

\* a click on the title of the pos-th tab of leaf node
TabActivate(node, pos) == Event("activate", node, pos, 0, 0)

\* a drag of the pos-th tab of leaf src onto leaf dst; place 0 appends it to
\* dst's tabs, 1..4 split dst Left, Right, Above, Below
TabMove(src, pos, dst, place) == Event("move", src, pos, dst, place)

-----------------------------------------------------------------------------
(* The panels *)

\* hierarchy_ui of bevy_inspector_egui, as the Hierarchy panel calls it: a
\* click selects the entity, replacing the selection or, with the modifier,
\* toggling the entity in it; the result tells whether there was a click
hierarchy_ui(selected_entities, ev) ==
    IF ev.kind # "hierarchy" THEN [selected |-> FALSE, selected_entities |-> selected_entities]
    ELSE IF ev.b = 0 THEN [selected |-> TRUE, selected_entities |-> <<ev.a>>]
    ELSE IF \E i \in DOMAIN selected_entities : selected_entities[i] = ev.a
         THEN [selected |-> TRUE, selected_entities |-> SelectSeq(selected_entities, LAMBDA x : x # ev.a)]
         ELSE [selected |-> TRUE, selected_entities |-> Append(selected_entities, ev.a)]

\* the Hierarchy arm of TabViewer::ui with the flag dropped
TabViewer_ui_Hierarchy_keep(tv, ev) ==
    LET r == hierarchy_ui(tv.selected_entities, ev)
    IN  [tv EXCEPT !.selected_entities = r.selected_entities, !.trace.hierarchy_selected = r.selected]

\* the Hierarchy arm of TabViewer::ui
TabViewer_ui_Hierarchy(tv, ev) ==
    LET r == hierarchy_ui(tv.selected_entities, ev)
    IN  [tv EXCEPT !.selected_entities = r.selected_entities,
                   !.selection = IF r.selected THEN Sel_Entities ELSE tv.selection,
                   !.trace.hierarchy_selected = r.selected]

\* select_resource that also drops the selected objects
select_resource_clear(tv, ev) ==
    LET resources == ResourceList(tv.type_registry)
    IN  IF ev.kind = "resource" /\ ev.a \in DOMAIN resources
        THEN [tv EXCEPT !.selection = Sel_Resource(resources[ev.a].type_id, resources[ev.a].short_name),
                        !.selected_entities = <<>>]
        ELSE tv

\* select_resource: the clicked entry of the sorted list becomes the selection
select_resource(tv, ev) ==
    LET resources == ResourceList(tv.type_registry)
    IN  IF ev.kind = "resource" /\ ev.a \in DOMAIN resources
        THEN [tv EXCEPT !.selection = Sel_Resource(resources[ev.a].type_id, resources[ev.a].short_name)]
        ELSE tv

\* select_asset: the clicked handle of the clicked asset type becomes the selection
select_asset(tv, ev) ==
    LET list == AssetList(tv.type_registry)
    IN  IF ev.kind = "asset" /\ ev.a \in DOMAIN list
        THEN LET handles == SortedIds(tv.assets[list[ev.a].type_id])
             IN  IF ev.b \in DOMAIN handles
                 THEN [tv EXCEPT !.selection = Sel_Asset(list[ev.a].type_id, list[ev.a].short_name, handles[ev.b])]
                 ELSE tv
        ELSE tv

\* query.get_single() over the main cameras that carry component
MainCamerasWith(cams, component) == {c \in DOMAIN cams : cams[c].main /\ component \in cams[c].components}

\* the write-back that adds the result to the transform it finds
gizmo_write_back_compose(ts, selected, result) ==
    [ts EXCEPT ![selected] = Transform(ts[selected].translation + result.translation, result.rotation, result.scale)]

\* *transform = Transform { translation, rotation, scale } of the result
gizmo_write_back(ts, selected, result) ==
    [ts EXCEPT ![selected] = Transform(result.translation, result.rotation, result.scale)]

\* the loop body that unwraps the first transform lookup as well
gizmo_loop_unwrap(ts, selected, ev, path) ==
    IF ~ts[selected].some
    THEN [transforms |-> ts, trace |-> [GizmoIdle EXCEPT !.path = path, !.matrices = TRUE, !.unwrap_failed = TRUE]]
    ELSE IF ev.kind = "gizmo" /\ ev.a \in DOMAIN GizmoResults
    THEN [transforms |-> gizmo_write_back(ts, selected, GizmoResults[ev.a]),
          trace |-> [GizmoIdle EXCEPT !.path = path, !.matrices = TRUE, !.read = TRUE, !.interacted = TRUE, !.wrote = TRUE]]
    ELSE [transforms |-> ts, trace |-> [GizmoIdle EXCEPT !.path = path, !.matrices = TRUE, !.read = TRUE, !.interacted = TRUE]]

\* the body of the `for selected in selected_entities.iter()` loop, for the
\* one selected entity there is when the loop is reached: world.get reads
\* the transform or the entity is skipped; a result of the gizmo is written
\* through world.get_mut(..).unwrap(), which fails when there is no transform
gizmo_loop(ts, selected, ev, path) ==
    IF ~ts[selected].some
    THEN [transforms |-> ts, trace |-> [GizmoIdle EXCEPT !.path = path, !.matrices = TRUE]]
    ELSE IF ev.kind = "gizmo" /\ ev.a \in DOMAIN GizmoResults
    THEN IF ts[selected].some
         THEN [transforms |-> gizmo_write_back(ts, selected, GizmoResults[ev.a]),
               trace |-> [GizmoIdle EXCEPT !.path = path, !.matrices = TRUE, !.read = TRUE, !.interacted = TRUE, !.wrote = TRUE]]
         ELSE [transforms |-> ts, trace |-> [GizmoIdle EXCEPT !.path = path, !.matrices = TRUE, !.read = TRUE, !.interacted = TRUE, !.unwrap_failed = TRUE]]
    ELSE [transforms |-> ts, trace |-> [GizmoIdle EXCEPT !.path = path, !.matrices = TRUE, !.read = TRUE, !.interacted = TRUE]]

\* draw_gizmo without the selection count checks
draw_gizmo_unchecked(tv, ev) ==
    IF tv.selected_entities = <<>> THEN [transforms |-> tv.transforms, trace |-> GizmoIdle]
    ELSE gizmo_loop(tv.transforms, tv.selected_entities[1], ev, "primary")

\* draw_gizmo that gives up when the primary lookup fails
draw_gizmo_nofallback(tv, ev) ==
    IF Cardinality(MainCamerasWith(tv.cameras, "Projection")) # 1
    THEN [transforms |-> tv.transforms, trace |-> GizmoIdle]
    ELSE IF Len(tv.selected_entities) # 1
    THEN [transforms |-> tv.transforms, trace |-> [GizmoIdle EXCEPT !.path = "primary", !.matrices = TRUE]]
    ELSE gizmo_loop(tv.transforms, tv.selected_entities[1], ev, "primary")

\* draw_gizmo: the primary lookup, else the orthographic one; the result is
\* the transforms after the call and what the call did
draw_gizmo(tv, ev) ==
    IF Cardinality(MainCamerasWith(tv.cameras, "Projection")) # 1
    THEN IF Cardinality(MainCamerasWith(tv.cameras, "OrthographicProjection")) # 1
         THEN [transforms |-> tv.transforms, trace |-> GizmoIdle]
         ELSE IF Len(tv.selected_entities) # 1
         THEN [transforms |-> tv.transforms, trace |-> [GizmoIdle EXCEPT !.path = "orthographic"]]
         ELSE gizmo_loop(tv.transforms, tv.selected_entities[1], ev, "orthographic")
    ELSE IF Len(tv.selected_entities) # 1
    THEN [transforms |-> tv.transforms, trace |-> [GizmoIdle EXCEPT !.path = "primary", !.matrices = TRUE]]
    ELSE gizmo_loop(tv.transforms, tv.selected_entities[1], ev, "primary")

\* the GameView arm of TabViewer::ui
TabViewer_ui_GameView(tv, ev, clip_rect) ==
    LET g == draw_gizmo([tv EXCEPT !.viewport_rect = clip_rect], ev)
    IN  [tv EXCEPT !.viewport_rect = clip_rect, !.transforms = g.transforms, !.trace.gizmo = [g.trace EXCEPT !.selected = tv.selected_entities]]

\* the elements of a sequence
Range(s) == {s[i] : i \in DOMAIN s}

\* ui_for_entity_with_children of bevy_inspector_egui: the fields of the one
\* object are shown, and an edit is applied to that object
ui_for_entity_with_children(ts, entity, ev) ==
    [transforms |-> IF ev.kind = "edit" /\ ts[entity].some THEN [ts EXCEPT ![entity].translation = ev.a] ELSE ts,
     fields     |-> {entity}]

\* ui_for_entities_shared_components of bevy_inspector_egui: the fields the
\* objects share are shown, and an edit is applied to every one of them; with
\* no object it shows nothing
ui_for_entities_shared_components(ts, entities, ev) ==
    [transforms |-> IF ev.kind = "edit"
                    THEN [e \in DOMAIN ts |-> IF e \in Range(entities) /\ ts[e].some THEN [ts[e] EXCEPT !.translation = ev.a] ELSE ts[e]]
                    ELSE ts,
     fields     |-> Range(entities)]

\* the Inspector arm that gives the first selected object to the
\* single-object editor whenever an object is selected
TabViewer_ui_Inspector_first(tv, ev) ==
    CASE tv.selection[1] = "Entities" ->
            IF Len(tv.selected_entities) >= 1
            THEN LET r == ui_for_entity_with_children(tv.transforms, tv.selected_entities[1], ev)
                 IN  [tv EXCEPT !.transforms = r.transforms,
                                !.trace.inspector = [editor |-> "ui_for_entity_with_children", entities |-> tv.selected_entities, target |-> 0, fields |-> r.fields]]
            ELSE LET r == ui_for_entities_shared_components(tv.transforms, tv.selected_entities, ev)
                 IN  [tv EXCEPT !.transforms = r.transforms,
                                !.trace.inspector = [editor |-> "ui_for_entities_shared_components", entities |-> tv.selected_entities, target |-> 0, fields |-> r.fields]]
      [] tv.selection[1] = "Resource" ->
            [tv EXCEPT !.trace.inspector = [editor |-> "ui_for_resource", entities |-> tv.selected_entities, target |-> tv.selection[2], fields |-> {}]]
      [] tv.selection[1] = "Asset" ->
            [tv EXCEPT !.trace.inspector = [editor |-> "ui_for_asset", entities |-> tv.selected_entities, target |-> tv.selection[2], fields |-> {}]]

\* the Inspector arm of TabViewer::ui: the match on the selection, and for
\* Entities the match on the slice of selected objects
TabViewer_ui_Inspector(tv, ev) ==
    CASE tv.selection[1] = "Entities" ->
            IF Len(tv.selected_entities) = 1
            THEN LET r == ui_for_entity_with_children(tv.transforms, tv.selected_entities[1], ev)
                 IN  [tv EXCEPT !.transforms = r.transforms,
                                !.trace.inspector = [editor |-> "ui_for_entity_with_children", entities |-> tv.selected_entities, target |-> 0, fields |-> r.fields]]
            ELSE LET r == ui_for_entities_shared_components(tv.transforms, tv.selected_entities, ev)
                 IN  [tv EXCEPT !.transforms = r.transforms,
                                !.trace.inspector = [editor |-> "ui_for_entities_shared_components", entities |-> tv.selected_entities, target |-> 0, fields |-> r.fields]]
      [] tv.selection[1] = "Resource" ->
            [tv EXCEPT !.trace.inspector = [editor |-> "ui_for_resource", entities |-> tv.selected_entities, target |-> tv.selection[2], fields |-> {}]]
      [] tv.selection[1] = "Asset" ->
            [tv EXCEPT !.trace.inspector = [editor |-> "ui_for_asset", entities |-> tv.selected_entities, target |-> tv.selection[2], fields |-> {}]]

\* TabViewer::ui: the match on the tab
TabViewer_ui(tv, tab, ev, clip_rect) ==
    CASE tab = "GameView"  -> TabViewer_ui_GameView(tv, ev, clip_rect)
      [] tab = "Hierarchy" -> TabViewer_ui_Hierarchy(tv, ev)
      [] tab = "Resources" -> select_resource(tv, ev)
      [] tab = "Assets"    -> select_asset(tv, ev)
      [] tab = "Inspector" -> TabViewer_ui_Inspector(tv, ev)

-----------------------------------------------------------------------------
(* The dock area *)

\* DockArea::show walking the tree in index order: every leaf draws its
\* active tab through the tab viewer
RECURSIVE DrawFrom(_, _, _, _, _)
DrawFrom(tv, tree, j, ev, clip_rect) ==
    IF j > Len(tree) THEN tv
    ELSE IF tree[j].kind = "Leaf" /\ tree[j].active \in DOMAIN tree[j].tabs
    THEN DrawFrom(TabViewer_ui(tv, tree[j].tabs[tree[j].active], ev, clip_rect), tree, j + 1, ev, clip_rect)
    ELSE DrawFrom(tv, tree, j + 1, ev, clip_rect)

\* the tabs drawn this frame: the active tab of every leaf
DrawnTabs(tree) == {tree[j].tabs[tree[j].active] : j \in {i \in DOMAIN tree : tree[i].kind = "Leaf" /\ tree[i].active \in DOMAIN tree[i].tabs}}

\* whether node j lies in the subtree rooted at p
RECURSIVE InSubtree(_, _)
InSubtree(j, p) ==
    IF j = p THEN TRUE
    ELSE IF j <= p THEN FALSE
    ELSE InSubtree(NodeParent(j), p)

\* the node that lies under s where j lies under p
RECURSIVE Corresponding(_, _, _)
Corresponding(j, p, s) ==
    IF j = p THEN s
    ELSE LET m == Corresponding(NodeParent(j), p, s)
         IN  IF j = NodeLeft(NodeParent(j)) THEN NodeLeft(m) ELSE NodeRight(m)

\* the vector without the Empty nodes at its end
RECURSIVE Trim(_)
Trim(tree) ==
    IF tree # <<>> /\ tree[Len(tree)].kind = "Empty" THEN Trim(SubSeq(tree, 1, Len(tree) - 1))
    ELSE tree

\* the subtree rooted at s takes the place of its parent p
LiftSubtree(tree, p, s) ==
    Trim([j \in 1..Len(tree) |-> IF InSubtree(j - 1, p) THEN NodeAt(tree, Corresponding(j - 1, p, s)) ELSE tree[j]])

\* the leaves that have no tab left
EmptyLeaves(tree) == {i \in 0..(Len(tree) - 1) : tree[i + 1].kind = "Leaf" /\ tree[i + 1].tabs = <<>>}

\* removing the last tab from a leaf removes that leaf and collapses its
\* parent split: the sibling subtree takes the parent's place
RemoveEmptyLeaf(tree) ==
    IF EmptyLeaves(tree) = {} THEN tree
    ELSE LET e == CHOOSE i \in EmptyLeaves(tree) : TRUE
         IN  IF e = 0 THEN <<>>
             ELSE LiftSubtree(tree, NodeParent(e), IF e = NodeLeft(NodeParent(e)) THEN NodeRight(NodeParent(e)) ELSE NodeLeft(NodeParent(e)))

\* the leaf without its pos-th tab
LeafRemoveTab(node, pos) ==
    LET tabs == [i \in 1..(Len(node.tabs) - 1) |-> IF i < pos THEN node.tabs[i] ELSE node.tabs[i + 1]]
    IN  [node EXCEPT !.tabs = tabs, !.active = IF node.active > Len(tabs) THEN Len(tabs) ELSE node.active]

\* the leaf with tab appended and shown
LeafAppendTab(node, tab) == [node EXCEPT !.tabs = Append(node.tabs, tab), !.active = Len(node.tabs) + 1]

\* whether ev is a gesture the tree can take
GestureApplies(tree, ev) ==
    CASE ev.kind = "activate" -> NodeAt(tree, ev.a).kind = "Leaf" /\ ev.b \in DOMAIN NodeAt(tree, ev.a).tabs
      [] ev.kind = "move" ->
            /\ NodeAt(tree, ev.a).kind = "Leaf" /\ ev.b \in DOMAIN NodeAt(tree, ev.a).tabs
            /\ NodeAt(tree, ev.c).kind = "Leaf"
            /\ ev.d \in 0..4
            /\ (ev.a # ev.c \/ Len(NodeAt(tree, ev.a).tabs) > 1)
      [] OTHER -> FALSE

\* a click on a tab title shows that tab in its leaf
ActivateTab(tree, ev) == SetNode(tree, ev.a, [NodeAt(tree, ev.a) EXCEPT !.active = ev.b])

\* a drag/drop moves a tab between leaves or into a new split of the
\* destination, then the leaf it may have emptied is removed
MoveTab(tree, ev) ==
    LET tab  == NodeAt(tree, ev.a).tabs[ev.b]
        t1   == SetNode(tree, ev.a, LeafRemoveTab(NodeAt(tree, ev.a), ev.b))
        t2   == IF ev.d = 0 THEN SetNode(t1, ev.c, LeafAppendTab(NodeAt(t1, ev.c), tab))
                ELSE Tree_split(t1, ev.c, <<"Left", "Right", "Above", "Below">>[ev.d], 50, <<tab>>).tree
    IN  RemoveEmptyLeaf(t2)

\* the tree after the frame's dock gesture, if there is one it can take
DockGesture(tree, ev) ==
    IF ~GestureApplies(tree, ev) THEN tree
    ELSE IF ev.kind = "activate" THEN ActivateTab(tree, ev)
    ELSE MoveTab(tree, ev)

\* UiState::ui that clears the recorded rectangle before it draws
UiState_ui_reset(us, w, ev, clip_rect) ==
    LET tree == IF ev.kind = "activate" THEN DockGesture(us.tree, ev) ELSE us.tree
        tv0  == [viewport_rect     |-> Rect_NOTHING,
                 selected_entities |-> us.selected_entities,
                 selection         |-> us.selection,
                 gizmo_mode        |-> us.gizmo_mode,
                 transforms        |-> w.transforms,
                 cameras           |-> w.cameras,
                 type_registry     |-> w.type_registry,
                 assets            |-> w.assets,
                 trace             |-> [TraceIdle EXCEPT !.ev = ev, !.before = us.selection, !.drawn = DrawnTabs(tree), !.rect = clip_rect]]
        tv   == DrawFrom(tv0, tree, 1, ev, clip_rect)
    IN  [ui_state |-> [tree              |-> IF ev.kind = "move" THEN DockGesture(tree, ev) ELSE tree,
                       viewport_rect     |-> tv.viewport_rect,
                       selected_entities |-> tv.selected_entities,
                       selection         |-> tv.selection,
                       gizmo_mode        |-> us.gizmo_mode],
         transforms  |-> tv.transforms,
         trace |-> tv.trace]

\* UiState::ui: the dock area shows the tree through a TabViewer that
\* borrows the fields of UiState and the world
UiState_ui(us, w, ev, clip_rect) ==
    LET tree == IF ev.kind = "activate" THEN DockGesture(us.tree, ev) ELSE us.tree
        tv0  == [viewport_rect     |-> us.viewport_rect,
                 selected_entities |-> us.selected_entities,
                 selection         |-> us.selection,
                 gizmo_mode        |-> us.gizmo_mode,
                 transforms        |-> w.transforms,
                 cameras           |-> w.cameras,
                 type_registry     |-> w.type_registry,
                 assets            |-> w.assets,
                 trace             |-> [TraceIdle EXCEPT !.ev = ev, !.before = us.selection, !.drawn = DrawnTabs(tree), !.rect = clip_rect]]
        tv   == DrawFrom(tv0, tree, 1, ev, clip_rect)
    IN  [ui_state |-> [tree              |-> IF ev.kind = "move" THEN DockGesture(tree, ev) ELSE tree,
                       viewport_rect     |-> tv.viewport_rect,
                       selected_entities |-> tv.selected_entities,
                       selection         |-> tv.selection,
                       gizmo_mode        |-> us.gizmo_mode],
         transforms  |-> tv.transforms,
         trace |-> tv.trace]

-----------------------------------------------------------------------------
(* The systems *)

Keys == {"F1", "R", "T", "S"}

\* editor_input_system that sets the mode instead of flipping it
editor_input_system_set(ed, kb) == IF "F1" \in kb THEN EditorResource(TRUE) ELSE ed

\* editor_input_system: kb is the set of keys just pressed this frame
editor_input_system(ed, kb) == IF "F1" \in kb THEN EditorResource(~ed.mode) ELSE ed

\* set_gizmo_mode with the modes of T and S exchanged
set_gizmo_mode_swapped(us, kb) ==
    LET m1 == IF "R" \in kb THEN "Rotate" ELSE us.gizmo_mode
        m2 == IF "T" \in kb THEN "Scale" ELSE m1
        m3 == IF "S" \in kb THEN "Translate" ELSE m2
    IN  [us EXCEPT !.gizmo_mode = m3]

\* set_gizmo_mode that polls Scale first
set_gizmo_mode_reordered(us, kb) ==
    LET m1 == IF "S" \in kb THEN "Scale" ELSE us.gizmo_mode
        m2 == IF "T" \in kb THEN "Translate" ELSE m1
        m3 == IF "R" \in kb THEN "Rotate" ELSE m2
    IN  [us EXCEPT !.gizmo_mode = m3]

\* set_gizmo_mode: the loop over (R, Rotate), (T, Translate), (S, Scale)
set_gizmo_mode(us, kb) ==
    LET m1 == IF "R" \in kb THEN "Rotate" ELSE us.gizmo_mode
        m2 == IF "T" \in kb THEN "Translate" ELSE m1
        m3 == IF "S" \in kb THEN "Scale" ELSE m2
    IN  [us EXCEPT !.gizmo_mode = m3]

\* the viewport set_camera_viewport computes with inspection mode on
CroppedViewport(rect, scale_factor) ==
    LET viewport_pos  == [x |-> FMul(Rect_left_top(rect).x, scale_factor), y |-> FMul(Rect_left_top(rect).y, scale_factor)]
        viewport_size == [x |-> FMul(Rect_size(rect).x, scale_factor), y |-> FMul(Rect_size(rect).y, scale_factor)]
    IN  Viewport(<<AsU32(viewport_pos.x), AsU32(viewport_pos.y)>>, <<AsU32(viewport_size.x), AsU32(viewport_size.y)>>, <<0, 1>>)

\* the viewport set_camera_viewport computes with inspection mode off
FullViewport(win) == Viewport(<<U32(0), U32(0)>>, <<U32(win.physical_width), U32(win.physical_height)>>, <<0, 1>>)

\* set_camera_viewport that writes every camera
set_camera_viewport_all(cams, us, win, egui, ed) ==
    IF ~win.present THEN cams
    ELSE [c \in DOMAIN cams |->
            [cams[c] EXCEPT !.viewport = IF ed.mode THEN CroppedViewport(us.viewport_rect, win.scale_factor * egui.scale_factor)
                                         ELSE FullViewport(win)]]

\* set_camera_viewport: the cameras after the system has run
set_camera_viewport(cams, us, win, egui, ed) ==
    IF ~win.present THEN cams
    ELSE IF Cardinality({c \in DOMAIN cams : cams[c].main}) # 1 THEN cams
    ELSE [c \in DOMAIN cams |->
            IF cams[c].main
            THEN [cams[c] EXCEPT !.viewport = IF ed.mode THEN CroppedViewport(us.viewport_rect, win.scale_factor * egui.scale_factor)
                                              ELSE FullViewport(win)]
            ELSE cams[c]]

-----------------------------------------------------------------------------
(* The schedule: PostStartup once, then Update and PostUpdate every frame *)

\* a schedule in which set_camera_viewport is not ordered after show_ui and
\* runs first
NextSystem_unordered(p) ==
    CASE p = "Update" -> "PostUpdate_set_camera_viewport"
      [] p = "PostUpdate_set_camera_viewport" -> "PostUpdate_show_ui"
      [] p = "PostUpdate_show_ui" -> "FrameEnd"

\* the systems of a frame in the order the schedules run them: Update
\* (editor_input_system, set_gizmo_mode), then in PostUpdate show_ui and,
\* after it, set_camera_viewport
NextSystem(p) ==
    CASE p = "Update" -> "PostUpdate_show_ui"
      [] p = "PostUpdate_show_ui" -> "PostUpdate_set_camera_viewport"
      [] p = "PostUpdate_set_camera_viewport" -> "FrameEnd"

\* setup: exactly one camera, or the exit event and nothing else
Setup ==
    /\ pc = "PostStartup"
    /\ pc' = "Update"
    /\ IF Cardinality(DOMAIN cameras) = 1
       THEN /\ cameras' = [c \in DOMAIN cameras |-> [cameras[c] EXCEPT !.main = TRUE]]
            /\ editor' = EditorResource(FALSE)
            /\ UNCHANGED app_exit
       ELSE /\ app_exit' = TRUE
            /\ UNCHANGED <<cameras, editor>>
    /\ UNCHANGED <<window, egui_settings, type_registry, assets, ui_state, transforms, trace, f1_presses, moves>>

\* the Update schedule with the keys kb just pressed: editor_input_system
\* and set_gizmo_mode, which write different resources; a system whose
\* resource does not exist aborts the app
Update(kb) ==
    /\ pc = "Update"
    /\ "F1" \in kb => f1_presses < MaxPresses
    /\ IF ~editor.present
       THEN /\ pc' = "Panicked"
            /\ ui_state' \in {ui_state, set_gizmo_mode(ui_state, kb)}
            /\ UNCHANGED <<editor, f1_presses>>
       ELSE /\ pc' = NextSystem("Update")
            /\ editor' = editor_input_system(editor, kb)
            /\ ui_state' = set_gizmo_mode(ui_state, kb)
            /\ f1_presses' = IF "F1" \in kb THEN f1_presses + 1 ELSE f1_presses
    /\ trace' = [TraceIdle EXCEPT !.kb = kb]
    /\ UNCHANGED <<cameras, window, egui_settings, type_registry, assets, transforms, app_exit, moves>>

\* show_ui that draws the UI whatever the mode is
ShowUi_ungated(ev, clip_rect) ==
    /\ pc = "PostUpdate_show_ui"
    /\ ev.kind = "move" => moves < MaxMoves /\ GestureApplies(ui_state.tree, ev)
    /\ ev.kind = "activate" => GestureApplies(ui_state.tree, ev)
    /\ IF ~editor.present
       THEN /\ pc' = "Panicked"
            /\ UNCHANGED <<ui_state, transforms, trace, moves>>
       ELSE IF ~window.present \/ ~window.egui_context
            THEN /\ pc' = NextSystem("PostUpdate_show_ui")
                 /\ trace' = TraceIdle
                 /\ UNCHANGED <<ui_state, transforms, moves>>
            ELSE LET r == UiState_ui(ui_state, [transforms |-> transforms, cameras |-> cameras, type_registry |-> type_registry, assets |-> assets], ev, clip_rect)
                 IN  /\ pc' = IF r.trace.gizmo.unwrap_failed THEN "Panicked" ELSE NextSystem("PostUpdate_show_ui")
                     /\ ui_state' = r.ui_state
                     /\ transforms' = r.transforms
                     /\ trace' = r.trace
                     /\ moves' = IF ev.kind = "move" THEN moves + 1 ELSE moves
    /\ UNCHANGED <<cameras, window, egui_settings, type_registry, assets, editor, app_exit, f1_presses>>

\* show_ui in a frame with pointer event ev, the GameView tab laid out at clip_rect
ShowUi(ev, clip_rect) ==
    /\ pc = "PostUpdate_show_ui"
    /\ ev.kind = "move" => moves < MaxMoves /\ GestureApplies(ui_state.tree, ev)
    /\ ev.kind = "activate" => GestureApplies(ui_state.tree, ev)
    /\ IF ~editor.present
       THEN /\ pc' = "Panicked"
            /\ UNCHANGED <<ui_state, transforms, trace, moves>>
       ELSE IF ~editor.mode \/ ~window.present \/ ~window.egui_context
            THEN /\ pc' = NextSystem("PostUpdate_show_ui")
                 /\ trace' = TraceIdle
                 /\ UNCHANGED <<ui_state, transforms, moves>>
            ELSE LET r == UiState_ui(ui_state, [transforms |-> transforms, cameras |-> cameras, type_registry |-> type_registry, assets |-> assets], ev, clip_rect)
                 IN  /\ pc' = IF r.trace.gizmo.unwrap_failed THEN "Panicked" ELSE NextSystem("PostUpdate_show_ui")
                     /\ ui_state' = r.ui_state
                     /\ transforms' = r.transforms
                     /\ trace' = r.trace
                     /\ moves' = IF ev.kind = "move" THEN moves + 1 ELSE moves
    /\ UNCHANGED <<cameras, window, egui_settings, type_registry, assets, editor, app_exit, f1_presses>>

\* set_camera_viewport, after show_ui
SetCameraViewport ==
    /\ pc = "PostUpdate_set_camera_viewport"
    /\ IF ~editor.present
       THEN /\ pc' = "Panicked"
            /\ UNCHANGED cameras
       ELSE /\ pc' = NextSystem("PostUpdate_set_camera_viewport")
            /\ cameras' = set_camera_viewport(cameras, ui_state, window, egui_settings, editor)
    /\ UNCHANGED <<window, egui_settings, type_registry, assets, editor, ui_state, transforms, app_exit, trace, f1_presses, moves>>

\* between two frames the host despawns object e or removes its Transform;
\* the editor's selection is not told
RemoveTransform(e) ==
    /\ pc = "FrameEnd"
    /\ transforms[e].some
    /\ transforms' = [transforms EXCEPT ![e] = NoTransform]
    /\ UNCHANGED <<pc, cameras, window, egui_settings, type_registry, assets, editor, ui_state, app_exit, trace, f1_presses, moves>>

\* the app runner between two frames: it leaves the loop on an AppExit event
Runner ==
    /\ pc = "FrameEnd"
    /\ pc' = IF app_exit THEN "Exited" ELSE "Update"
    /\ trace' = TraceIdle
    /\ UNCHANGED <<cameras, window, egui_settings, type_registry, assets, editor, ui_state, transforms, app_exit, f1_presses, moves>>

-----------------------------------------------------------------------------
(* Specifications *)

\* the camera entities the host may have spawned before PostStartup
CameraConfigs ==
    {[c \in {} |-> CameraEntity({}, FALSE)],
     [c \in {11} |-> CameraEntity({"Projection"}, FALSE)],
     [c \in {11} |-> CameraEntity({"OrthographicProjection"}, FALSE)],
     [c \in {11, 12} |-> CameraEntity({"Projection"}, FALSE)]}

\* the primary window of the runs: 1280 x 720 physical pixels, scale factor 1.0
DefaultWindow == Window(1280, 720, 2, TRUE)

\* where the layout can put the GameView tab: x 10, y 20, w 100, h 50 points
ClipRects == {RectXYWH(20, 40, 200, 100)}

\* the state after App::new().add_plugins(EditorPlugin) and the host's Startup
InitWith(cams) ==
    /\ pc = "PostStartup"
    /\ cameras = cams
    /\ window = DefaultWindow
    /\ egui_settings = [scale_factor |-> 1]
    /\ type_registry = Registry
    /\ assets = AssetIds
    /\ editor = NoResource
    /\ ui_state = UiState_new
    /\ transforms = [e \in Objects |-> T0]
    /\ app_exit = FALSE
    /\ trace = TraceIdle
    /\ f1_presses = 0
    /\ moves = 0

Init == \E cams \in CameraConfigs : InitWith(cams)

HierarchyEvents == {HierarchyClick(e, add) : e \in Objects, add \in {0, 1}}

\* the clicks on the entries of the Resources or Assets panel, whichever is drawn
ListEvents(tree, registry, ids) ==
    (IF "Resources" \in DrawnTabs(tree) THEN {ResourceClick(i) : i \in DOMAIN ResourceList(registry)} ELSE {})
    \cup (IF "Assets" \in DrawnTabs(tree)
          THEN UNION {{AssetClick(i, j) : j \in 1..Cardinality(ids[AssetList(registry)[i].type_id])} : i \in DOMAIN AssetList(registry)}
          ELSE {})

GizmoEvents == {GizmoDrag(i) : i \in DOMAIN GizmoResults}

\* the indices of the leaves of the tree
Leaves(tree) == {i \in 0..(Len(tree) - 1) : tree[i + 1].kind = "Leaf"}

\* the clicks on tab titles the tree offers
ActivateEvents(tree) == UNION {{TabActivate(n, p) : p \in DOMAIN NodeAt(tree, n).tabs} : n \in Leaves(tree)}

\* the drag/drop gestures the tree offers
MoveEvents(tree) == UNION {{TabMove(a, p, c, d) : p \in DOMAIN NodeAt(tree, a).tabs, c \in Leaves(tree), d \in 0..4} : a \in Leaves(tree)}

UpdateAny == \E kb \in SUBSET Keys : Update(kb)

ShowUiAny == \E ev \in {NoEvent} \cup HierarchyEvents \cup GizmoEvents \cup ListEvents(ui_state.tree, type_registry, assets) \cup ActivateEvents(ui_state.tree), r \in ClipRects : ShowUi(ev, r)

Next == Setup \/ UpdateAny \/ ShowUiAny \/ SetCameraViewport \/ Runner

Spec == Init /\ [][Next]_vars

\* the runs in which the pointer only works the dock: the editor has been
\* set up with one camera and F1 has put it in inspection mode
InitDock ==
    /\ pc = "PostUpdate_show_ui"
    /\ cameras = [c \in {11} |-> [CameraEntity({"Projection"}, TRUE) EXCEPT !.viewport = FullViewport(DefaultWindow)]]
    /\ window = DefaultWindow
    /\ egui_settings = [scale_factor |-> 1]
    /\ type_registry = Registry
    /\ assets = AssetIds
    /\ editor = EditorResource(TRUE)
    /\ ui_state = UiState_new
    /\ transforms = [e \in Objects |-> T0]
    /\ app_exit = FALSE
    /\ trace = TraceIdle
    /\ f1_presses = 1
    /\ moves = 0

UpdateIdle == Update({})

ShowUiDock == \E ev \in {NoEvent} \cup ActivateEvents(ui_state.tree) \cup MoveEvents(ui_state.tree), r \in ClipRects : ShowUi(ev, r)

NextDock == UpdateIdle \/ ShowUiDock \/ SetCameraViewport \/ Runner

SpecDock == InitDock /\ [][NextDock]_vars

\* the rectangles of the viewport runs, in half points: the empty one,
\* {x 10, y 20, w 100, h 50}, one with fractional sides and one that starts
\* left of the window
FiniteRects == {RectXYWH(20, 40, 200, 100), RectXYWH(21, 5, 201, 99), RectXYWH(-3, 0, 50, 51)}

ViewportRects == {Rect_NOTHING} \cup FiniteRects

\* no primary window, or one of two sizes at scale factor 1.0, 1.5 or 2.0
Windows == {NoWindow} \cup {Window(1280, 720, sf, TRUE) : sf \in {2, 3, 4}} \cup {Window(800, 600, sf, TRUE) : sf \in {2, 3, 4}}

\* the cameras of a later frame: the host may have spawned cameras, removed
\* the main one, or given MainCamera to a second camera
LaterCameras ==
    {[c \in {} |-> CameraEntity({}, FALSE)],
     [c \in {11} |-> CameraEntity({"Projection"}, TRUE)],
     [c \in {12} |-> CameraEntity({"Projection"}, FALSE)],
     [c \in {11, 12} |-> CameraEntity({"Projection"}, c = 11)],
     [c \in {11, 12} |-> CameraEntity({"Projection"}, TRUE)]}

\* the viewport runs start in a frame after setup, before set_camera_viewport,
\* with any rectangle, window, scale factor, mode and cameras
InitViewport ==
    /\ pc = "PostUpdate_set_camera_viewport"
    /\ cameras \in LaterCameras
    /\ window \in Windows
    /\ egui_settings \in {[scale_factor |-> 1], [scale_factor |-> 2]}
    /\ type_registry = Registry
    /\ assets = AssetIds
    /\ editor \in {EditorResource(FALSE), EditorResource(TRUE)}
    /\ ui_state \in {[UiState_new EXCEPT !.viewport_rect = r] : r \in ViewportRects}
    /\ transforms = [e \in Objects |-> T0]
    /\ app_exit = FALSE
    /\ trace = TraceIdle
    /\ f1_presses = IF editor.mode THEN 1 ELSE 0
    /\ moves = 0

ShowUiRect == \E r \in FiniteRects : ShowUi(NoEvent, r)

NextViewport == UpdateIdle \/ ShowUiRect \/ SetCameraViewport \/ Runner

SpecViewport == InitViewport /\ [][NextViewport]_vars

\* the registrations of the list runs: two resources whose short names are
\* equal (a::Cl registered before b::Cl), a component, and two asset types
\* whose short names are equal
ListPool ==
    {Registration(2, <<77, 97>>, {"ReflectComponent"}),
     Registration(3, <<67, 108>>, {"ReflectResource"}),
     Registration(4, <<77, 101>>, {"ReflectAsset"}),
     Registration(6, <<67, 108>>, {"ReflectResource"}),
     Registration(7, <<77, 101>>, {"ReflectAsset"})}

\* the live handles of the asset types of the list runs
ListAssetIds == [t \in {4, 7} |-> IF t = 4 THEN {31, 30} ELSE {32}]

\* TypeRegistry::iter walks a hash map: the registrations of S come in any order
Orders(S) == {s \in [1..Cardinality(S) -> S] : \A i, j \in 1..Cardinality(S) : i # j => s[i] # s[j]}

\* the list runs start in inspection mode with any set of registrations of
\* the pool, iterated in any order
InitLists ==
    /\ pc = "PostUpdate_show_ui"
    /\ cameras = [c \in {11} |-> [CameraEntity({"Projection"}, TRUE) EXCEPT !.viewport = FullViewport(DefaultWindow)]]
    /\ window = DefaultWindow
    /\ egui_settings = [scale_factor |-> 1]
    /\ type_registry \in UNION {Orders(S) : S \in SUBSET ListPool}
    /\ assets = ListAssetIds
    /\ editor = EditorResource(TRUE)
    /\ ui_state = UiState_new
    /\ transforms = [e \in Objects |-> T0]
    /\ app_exit = FALSE
    /\ trace = TraceIdle
    /\ f1_presses = 1
    /\ moves = 0

ShowUiLists == \E ev \in {NoEvent} \cup ListEvents(ui_state.tree, type_registry, assets) \cup ActivateEvents(ui_state.tree), r \in ClipRects : ShowUi(ev, r)

NextLists == UpdateIdle \/ ShowUiLists \/ SetCameraViewport \/ Runner

SpecLists == InitLists /\ [][NextLists]_vars

UpdateToggle == \E kb \in SUBSET {"F1"} : Update(kb)

NextFrame == UpdateToggle \/ ShowUiRect \/ SetCameraViewport \/ Runner

\* the viewport runs with the toggle key
SpecFrame == InitViewport /\ [][NextFrame]_vars

\* the main cameras a frame of the gizmo runs can find: one with Projection,
\* one with OrthographicProjection, one with both, one with neither, none,
\* and two with Projection
GizmoCameras ==
    {[c \in {11} |-> CameraEntity({"Projection"}, TRUE)],
     [c \in {11} |-> CameraEntity({"OrthographicProjection"}, TRUE)],
     [c \in {11} |-> CameraEntity({"Projection", "OrthographicProjection"}, TRUE)],
     [c \in {11} |-> CameraEntity({}, TRUE)],
     [c \in {11} |-> CameraEntity({"Projection"}, FALSE)],
     [c \in {11, 12} |-> CameraEntity({"Projection"}, TRUE)]}

\* the gizmo runs start in inspection mode in a frame after setup, with any
\* of these cameras
InitGizmo ==
    /\ pc = "PostUpdate_show_ui"
    /\ cameras \in GizmoCameras
    /\ window = DefaultWindow
    /\ egui_settings = [scale_factor |-> 1]
    /\ type_registry = Registry
    /\ assets = AssetIds
    /\ editor = EditorResource(TRUE)
    /\ ui_state = UiState_new
    /\ transforms = [e \in Objects |-> T0]
    /\ app_exit = FALSE
    /\ trace = TraceIdle
    /\ f1_presses = 1
    /\ moves = 0

ShowUiGizmo == \E ev \in {NoEvent} \cup HierarchyEvents \cup GizmoEvents, r \in ClipRects : ShowUi(ev, r)

RemoveAny == \E e \in Objects : RemoveTransform(e)

NextGizmo == UpdateIdle \/ ShowUiGizmo \/ SetCameraViewport \/ RemoveAny \/ Runner

SpecGizmo == InitGizmo /\ [][NextGizmo]_vars

\* the drags that drop a tab among the tabs of another leaf, where it hides
\* the tab that leaf was showing
StackEvents(tree) == {ev \in MoveEvents(tree) : ev.d = 0}

\* where the layout can put the GameView tab in the runs that hide it
RetainRects == {RectXYWH(20, 40, 200, 100), RectXYWH(21, 5, 201, 99)}

\* the runs that hide the GameView tab start in inspection mode with the
\* UiState as created, the primary window with or without an egui context
InitRetain ==
    /\ pc = "PostUpdate_show_ui"
    /\ cameras = [c \in {11} |-> [CameraEntity({"Projection"}, TRUE) EXCEPT !.viewport = FullViewport(DefaultWindow)]]
    /\ window \in {DefaultWindow, Window(1280, 720, 2, FALSE)}
    /\ egui_settings = [scale_factor |-> 1]
    /\ type_registry = Registry
    /\ assets = AssetIds
    /\ editor = EditorResource(TRUE)
    /\ ui_state = UiState_new
    /\ transforms = [e \in Objects |-> T0]
    /\ app_exit = FALSE
    /\ trace = TraceIdle
    /\ f1_presses = 1
    /\ moves = 0

ShowUiRetain == \E ev \in {NoEvent} \cup ActivateEvents(ui_state.tree) \cup StackEvents(ui_state.tree), r \in RetainRects : ShowUi(ev, r)

NextRetain == UpdateIdle \/ ShowUiRetain \/ SetCameraViewport \/ Runner

SpecRetain == InitRetain /\ [][NextRetain]_vars

\* the values an Inspector edit can type into the translation field
EditValues == {3, 4}

InspectorEvents == {InspectorEdit(v) : v \in EditValues}

\* the runs in which the pointer works the Hierarchy, the lists and the
\* Inspector: the editor has been set up with one camera and is in
\* inspection mode
InitInspector ==
    /\ pc = "PostUpdate_show_ui"
    /\ cameras = [c \in {11} |-> [CameraEntity({"Projection"}, TRUE) EXCEPT !.viewport = FullViewport(DefaultWindow)]]
    /\ window = DefaultWindow
    /\ egui_settings = [scale_factor |-> 1]
    /\ type_registry = Registry
    /\ assets = AssetIds
    /\ editor = EditorResource(TRUE)
    /\ ui_state = UiState_new
    /\ transforms = [e \in Objects |-> T0]
    /\ app_exit = FALSE
    /\ trace = TraceIdle
    /\ f1_presses = 1
    /\ moves = 0

ShowUiInspector == \E ev \in {NoEvent} \cup HierarchyEvents \cup InspectorEvents \cup ListEvents(ui_state.tree, type_registry, assets), r \in ClipRects : ShowUi(ev, r)

NextInspector == UpdateIdle \/ ShowUiInspector \/ SetCameraViewport \/ Runner

SpecInspector == InitInspector /\ [][NextInspector]_vars

-----------------------------------------------------------------------------
(* Properties *)

GizmoKeys == {"R", "T", "S"}

\* the objects the gizmo saw selected in the frame's draw
GizmoSaw(t) == t.gizmo.selected

\* C1: the inspection-mode boolean equals false XOR (number of frames with
\* F1 just pressed, mod 2); it changes only in Update, in a frame that
\* counts an F1 press, and stays as it is in every other step.
C1_ModeIsPressParity ==
    /\ [](editor.present => (editor.mode = (f1_presses % 2 = 1)))
    /\ [][(editor.present /\ editor' # editor) => (pc = "Update" /\ f1_presses' = f1_presses + 1)]_vars
    /\ [][(editor.present /\ f1_presses' = f1_presses) => editor' = editor]_vars

C1_Witness == editor.present /\ f1_presses = 2 /\ ~editor.mode /\ pc = "FrameEnd"

\* C2: when setup found no camera and sent the exit signal, no system of
\* the editor aborts afterwards.
C2_NoCameraExitsCleanly == (app_exit /\ DOMAIN cameras = {}) => pc # "Panicked"

\* the InspectorSelection a click on a list entry names
ClickedTarget(ev, registry, ids) ==
    IF ev.kind = "resource"
    THEN <<"Resource", ResourceList(registry)[ev.a].type_id, ResourceList(registry)[ev.a].short_name>>
    ELSE <<"Asset", AssetList(registry)[ev.a].type_id, AssetList(registry)[ev.a].short_name,
           SortedIds(ids[AssetList(registry)[ev.a].type_id])[ev.b]>>

\* C3: a click on a resource entry or an asset instance entry makes the
\* InspectionTarget exactly the clicked one, whatever it was, and leaves
\* the sequence of selected objects as it was.
C3_TargetSwitchKeepsSelection ==
    [][(pc = "PostUpdate_show_ui" /\ trace'.ev.kind \in {"resource", "asset"})
        => /\ ui_state'.selection = ClickedTarget(trace'.ev, type_registry, assets)
           /\ ui_state'.selected_entities = ui_state.selected_entities]_vars

C3_Witness ==
    /\ trace.ev.kind = "resource"
    /\ trace.before[1] = "Asset"
    /\ ui_state.selection[1] = "Resource"
    /\ Len(ui_state.selected_entities) = 2

\* C4: in a frame whose Hierarchy panel reports a click the InspectionTarget
\* is the Entities variant after the draw, whatever it was before; a
\* Hierarchy panel that reports no click leaves the target to the other panels.
C4_HierarchyClickSelectsEntities ==
    [][(pc = "PostUpdate_show_ui" /\ "Hierarchy" \in trace'.drawn)
        => /\ trace'.hierarchy_selected = (trace'.ev.kind = "hierarchy")
           /\ trace'.hierarchy_selected => ui_state'.selection = Sel_Entities
           /\ (~trace'.hierarchy_selected /\ trace'.ev.kind \notin {"resource", "asset"})
                => ui_state'.selection = ui_state.selection]_vars

C4_Witness ==
    /\ trace.hierarchy_selected
    /\ trace.before[1] = "Asset"
    /\ ui_state.selection = Sel_Entities

\* C5: when the gizmo is drawn with zero or more than one object selected it
\* does not interact and no transform changes, on either camera path, and
\* nothing aborts.
C5_GizmoNeedsOneSelected ==
    [][(pc = "PostUpdate_show_ui" /\ "GameView" \in trace'.drawn /\ Len(GizmoSaw(trace')) # 1)
        => /\ ~trace'.gizmo.interacted
           /\ ~trace'.gizmo.wrote
           /\ transforms' = transforms
           /\ pc' # "Panicked"]_vars

C5_Witness ==
    /\ trace.ev.kind = "gizmo"
    /\ trace.gizmo.path = "orthographic"
    /\ Len(GizmoSaw(trace)) = 2

\* C6: with exactly one object selected and a result R returned by the gizmo
\* the object's transform after the frame is R: translation, rotation and
\* scale are R's; with no result the transform stays; no other transform changes.
C6_GizmoResultReplacesTransform ==
    [][(pc = "PostUpdate_show_ui" /\ trace'.gizmo.interacted)
        => LET e == GizmoSaw(trace')[1]
           IN  /\ Len(GizmoSaw(trace')) = 1
               /\ IF trace'.ev.kind = "gizmo"
                  THEN /\ transforms'[e].some
                       /\ transforms'[e].translation = GizmoResults[trace'.ev.a].translation
                       /\ transforms'[e].rotation = GizmoResults[trace'.ev.a].rotation
                       /\ transforms'[e].scale = GizmoResults[trace'.ev.a].scale
                  ELSE transforms'[e] = transforms[e]
               /\ \A o \in Objects \ {e} : transforms'[o] = transforms[o]]_vars

C6_Witness ==
    /\ trace.gizmo.wrote
    /\ trace.ev = GizmoDrag(2)
    /\ transforms[2] = Transform(8, 1, 9)
    /\ transforms[1] = Transform(5, 6, 7)

\* C7: GizmoMode starts as Translate; a frame with exactly one of R, T, S
\* just pressed ends with that key's mode, whatever the mode was; a frame
\* with none of them keeps the mode; no other step changes it.
C7_ModeKeyOverwrites ==
    /\ (pc = "PostStartup" => ui_state.gizmo_mode = "Translate")
    /\ [][(pc = "Update" /\ pc' # "Panicked")
           => LET k == trace'.kb \cap GizmoKeys
              IN  /\ k = {"R"} => ui_state'.gizmo_mode = "Rotate"
                  /\ k = {"T"} => ui_state'.gizmo_mode = "Translate"
                  /\ k = {"S"} => ui_state'.gizmo_mode = "Scale"
                  /\ k = {} => ui_state'.gizmo_mode = ui_state.gizmo_mode]_vars
    /\ [][pc # "Update" => ui_state'.gizmo_mode = ui_state.gizmo_mode]_vars

C7_Witness == pc = "PostUpdate_show_ui" /\ trace.kb = {"T", "F1"} /\ ui_state.gizmo_mode = "Translate" /\ f1_presses = 2

\* the main cameras
MainCameras == {c \in DOMAIN cameras : cameras[c].main}

\* the scale factor set_camera_viewport reads, in halves
ScaleFactor == window.scale_factor * egui_settings.scale_factor

\* the width and height of a rectangle as f32: the empty rectangle has
\* -infinity for both
RectWidth(r) == IF r.min_x.k = "fin" /\ r.max_x.k = "fin" THEN Fin(r.max_x.v - r.min_x.v) ELSE NegInf

RectHeight(r) == IF r.min_y.k = "fin" /\ r.max_y.k = "fin" THEN Fin(r.max_y.v - r.min_y.v) ELSE NegInf

\* the pixel count u is exactly f (in half points) times sf (in halves)
ExactPixels(u, f, sf) == f.k = "fin" /\ f.v * sf >= 0 /\ (f.v * sf) % 4 = 0 /\ u = U32((f.v * sf) \div 4)

\* the pixel count u is f times sf truncated toward zero and saturated:
\* 0 for a negative product or -infinity, u32::MAX for +infinity
TruncatedPixels(u, f, sf) ==
    IF f.k = "inf" THEN (IF f.v > 0 THEN u = U32_MAX ELSE u = U32(0))
    ELSE IF f.v * sf < 0 THEN u = U32(0)
    ELSE /\ u.hi < 32768
         /\ 4 * (u.hi * 65536 + u.lo) <= f.v * sf
         /\ f.v * sf < 4 * (u.hi * 65536 + u.lo) + 4

\* the frame's set_camera_viewport has run with a window and one main camera
ViewportWasSet == pc = "FrameEnd" /\ window.present /\ Cardinality(MainCameras) = 1

\* C8 as stated: with inspection mode off the main camera's viewport is the
\* whole window at (0,0); with it on, position = rect top-left times scale
\* factor and size = rect size times scale factor, for every rectangle;
\* depth is [0,1].
C8_ViewportIsRectTimesScale ==
    ViewportWasSet =>
        \A c \in MainCameras :
            LET v == cameras[c].viewport
                r == ui_state.viewport_rect
            IN  /\ v.some
                /\ v.depth = <<0, 1>>
                /\ IF editor.mode
                   THEN /\ ExactPixels(v.physical_position[1], r.min_x, ScaleFactor)
                        /\ ExactPixels(v.physical_position[2], r.min_y, ScaleFactor)
                        /\ ExactPixels(v.physical_size[1], RectWidth(r), ScaleFactor)
                        /\ ExactPixels(v.physical_size[2], RectHeight(r), ScaleFactor)
                   ELSE /\ v.physical_position = <<U32(0), U32(0)>>
                        /\ v.physical_size = <<U32(window.physical_width), U32(window.physical_height)>>

\* C8 as amended: with inspection mode on, position and size are the
\* products truncated toward zero to u32 pixels and saturated (negative
\* gives 0, +infinity gives u32::MAX, the empty rectangle gives size 0).
C8_ViewportIsTruncatedRectTimesScale ==
    ViewportWasSet =>
        \A c \in MainCameras :
            LET v == cameras[c].viewport
                r == ui_state.viewport_rect
            IN  /\ v.some
                /\ v.depth = <<0, 1>>
                /\ IF editor.mode
                   THEN /\ TruncatedPixels(v.physical_position[1], r.min_x, ScaleFactor)
                        /\ TruncatedPixels(v.physical_position[2], r.min_y, ScaleFactor)
                        /\ TruncatedPixels(v.physical_size[1], RectWidth(r), ScaleFactor)
                        /\ TruncatedPixels(v.physical_size[2], RectHeight(r), ScaleFactor)
                   ELSE /\ v.physical_position = <<U32(0), U32(0)>>
                        /\ v.physical_size = <<U32(window.physical_width), U32(window.physical_height)>>

\* rect {x 10, y 20, w 100, h 50} at scale factor 2.0 gives {20, 40, 200, 100}
C8_Witness ==
    /\ ViewportWasSet
    /\ editor.mode
    /\ ui_state.viewport_rect = RectXYWH(20, 40, 200, 100)
    /\ ScaleFactor = 4
    /\ \A c \in MainCameras : cameras[c].viewport = Viewport(<<U32(20), U32(40)>>, <<U32(200), U32(100)>>, <<0, 1>>)

\* C9: set_camera_viewport, run with no MainCamera camera or no primary
\* window, changes no camera and does not abort; no step ever writes the
\* viewport of a camera that does not carry MainCamera.
C9_OnlyMainCameraIsResized ==
    /\ [][(pc = "PostUpdate_set_camera_viewport" /\ (MainCameras = {} \/ ~window.present))
            => (cameras' = cameras /\ pc' = "FrameEnd")]_vars
    /\ [][\A c \in DOMAIN cameras : ~cameras[c].main => cameras'[c] = cameras[c]]_vars

C9_Witness ==
    /\ pc = "FrameEnd"
    /\ window.present
    /\ editor.mode
    /\ DOMAIN cameras = {12}
    /\ ~cameras[12].main
    /\ ~cameras[12].viewport.some

NameSorted(s) ==
    \A i, j \in DOMAIN s : i < j =>
        /\ ~NameLess(s[j].short_name, s[i].short_name)
        /\ s[i].short_name = s[j].short_name => s[i].type_id < s[j].type_id

\* the registrations of the registry that carry the type data d
Tagged(registry, d) == {registry[i] : i \in {k \in DOMAIN registry : d \in registry[k].data}}

\* the elements of list s
Shown(s) == {s[i] : i \in DOMAIN s}

\* C11: in a frame that draws the Resources (resp. Assets) panel the list
\* holds the resource-tagged (resp. asset-tagged) registrations in ascending
\* order of short name, entries of equal name in registration order, so the
\* order is the same for every insertion order; the ids of one asset type
\* are in ascending order.
C11_ListsAreSortedForAnyOrder ==
    /\ "Resources" \in trace.drawn =>
          /\ Shown(ResourceList(type_registry)) = Tagged(type_registry, "ReflectResource")
          /\ NameSorted(ResourceList(type_registry))
    /\ "Assets" \in trace.drawn =>
          /\ Shown(AssetList(type_registry)) = Tagged(type_registry, "ReflectAsset")
          /\ NameSorted(AssetList(type_registry))
          /\ \A e \in Shown(AssetList(type_registry)) :
                LET handles == SortedIds(assets[e.type_id])
                IN  \A i, j \in DOMAIN handles : i < j => handles[i] < handles[j]

\* what the frame's Inspector panel did
Insp(t) == t.inspector

\* C12: with the Entities target the Inspector uses the single-object
\* editor exactly when one object is selected, and an edit then changes only
\* that object; with N > 1 selected it uses the shared-properties editor and
\* an edit is seen on all N objects; with none selected it shows no field,
\* changes nothing and does not abort.  With a Resource or Asset target it
\* uses the by-type-id editor for the target's type id, however many objects
\* are selected.
C12_InspectorEditorFollowsSelection ==
    [][(pc = "PostUpdate_show_ui" /\ "Inspector" \in trace'.drawn)
        => LET i == Insp(trace')
               n == Len(i.entities)
           IN  /\ pc' # "Panicked"
               /\ trace'.before[1] = "Entities" =>
                     /\ (i.editor = "ui_for_entity_with_children") = (n = 1)
                     /\ n # 1 => i.editor = "ui_for_entities_shared_components"
                     /\ i.fields = Range(i.entities)
                     /\ trace'.ev.kind = "edit" =>
                           /\ \A e \in Range(i.entities) : transforms'[e].translation = trace'.ev.a
                           /\ \A e \in Objects \ Range(i.entities) : transforms'[e] = transforms[e]
               /\ trace'.before[1] = "Resource" =>
                     /\ i.editor = "ui_for_resource"
                     /\ i.target = trace'.before[2]
                     /\ trace'.ev.kind = "edit" => transforms' = transforms
               /\ trace'.before[1] = "Asset" =>
                     /\ i.editor = "ui_for_asset"
                     /\ i.target = trace'.before[2]
                     /\ trace'.ev.kind = "edit" => transforms' = transforms]_vars

\* an edit with two objects selected has changed both
C12_Witness ==
    /\ trace.ev = InspectorEdit(4)
    /\ Insp(trace).editor = "ui_for_entities_shared_components"
    /\ Len(Insp(trace).entities) = 2
    /\ \A e \in Objects : transforms[e].translation = 4

\* C13: the steps of a frame come in the order keys (Update), panels
\* (show_ui), synchronizer (set_camera_viewport); the mode is written only
\* by the key step, so the panels and the synchronizer read the same value;
\* and at the end of a frame with inspection mode on whose GameView tab drew,
\* the main camera's viewport is the one computed from the rectangle that
\* tab recorded in this frame.
C13_SynchronizerUsesThisFramesRect ==
    /\ [][(pc = "Update" /\ pc' # "Panicked") => pc' = "PostUpdate_show_ui"]_vars
    /\ [][(pc = "PostUpdate_show_ui" /\ pc' # "Panicked") => pc' = "PostUpdate_set_camera_viewport"]_vars
    /\ [][(pc = "PostUpdate_set_camera_viewport" /\ pc' # "Panicked") => pc' = "FrameEnd"]_vars
    /\ [][(pc = "PostUpdate_show_ui" \/ pc = "PostUpdate_set_camera_viewport") => editor' = editor]_vars
    /\ [][pc # "PostUpdate_show_ui" => ui_state'.viewport_rect = ui_state.viewport_rect]_vars
    /\ []((ViewportWasSet /\ editor.mode /\ "GameView" \in trace.drawn)
            => /\ ui_state.viewport_rect = trace.rect
               /\ \A c \in MainCameras : cameras[c].viewport = CroppedViewport(trace.rect, ScaleFactor))

\* a frame that began with the empty rectangle recorded, turned inspection
\* mode on and drew the GameView tab at {x 10.5, y 2.5, w 100.5, h 49.5}
C13_Witness ==
    /\ ViewportWasSet
    /\ editor.mode
    /\ f1_presses = 1
    /\ "GameView" \in trace.drawn
    /\ trace.rect = RectXYWH(21, 5, 201, 99)
    /\ \A c \in MainCameras : cameras[c].viewport = CroppedViewport(RectXYWH(21, 5, 201, 99), ScaleFactor)

\* C14: on both camera paths the gizmo checks that exactly one object is
\* selected before it computes the view and projection matrices: a frame
\* whose gizmo saw a selection of any other size computed no matrix.
C14_SelectionCheckedBeforeMatrices ==
    [][(pc = "PostUpdate_show_ui" /\ "GameView" \in trace'.drawn /\ Len(GizmoSaw(trace')) # 1)
        => ~trace'.gizmo.matrices]_vars

\* the frame's lookup of exactly one main camera carrying component
FoundOne(component) == Cardinality(MainCamerasWith(cameras, component)) = 1

\* C15: a frame whose primary lookup does not find exactly one main camera
\* tries the orthographic lookup; when that finds one and one object with a
\* transform is selected the gizmo interacts and a result is written back
\* as on the primary path; when both lookups fail no transform changes,
\* nothing aborts and the frame goes on to the synchronizer.
C15_OrthographicFallback ==
    [][(pc = "PostUpdate_show_ui" /\ "GameView" \in trace'.drawn)
        => LET g == trace'.gizmo
           IN  /\ FoundOne("Projection") => g.path = "primary"
               /\ (~FoundOne("Projection") /\ FoundOne("OrthographicProjection")) =>
                     /\ g.path = "orthographic"
                     /\ (Len(GizmoSaw(trace')) = 1 /\ transforms[GizmoSaw(trace')[1]].some) =>
                           /\ g.interacted
                           /\ g.wrote = (trace'.ev.kind = "gizmo")
                           /\ trace'.ev.kind = "gizmo" =>
                                 transforms' = gizmo_write_back(transforms, GizmoSaw(trace')[1], GizmoResults[trace'.ev.a])
               /\ (~FoundOne("Projection") /\ ~FoundOne("OrthographicProjection")) =>
                     /\ g.path = "none"
                     /\ ~g.interacted
                     /\ transforms' = transforms
                     /\ pc' = "PostUpdate_set_camera_viewport"]_vars

\* a drag on the orthographic path has moved the one selected object
C15_Witness ==
    /\ trace.gizmo.path = "orthographic"
    /\ trace.gizmo.wrote
    /\ trace.ev = GizmoDrag(1)
    /\ GizmoSaw(trace) = <<2>>
    /\ transforms[2] = Transform(5, 6, 7)
    /\ transforms[1] = T0

\* C16: setup sends the exit signal exactly when there is no camera; with
\* one camera or more it gives a camera the MainCamera designation, inserts
\* EditorResource(false) and sends no exit signal.
C16_FatalOnlyWithoutCamera ==
    [][pc = "PostStartup"
        => /\ app_exit' = (DOMAIN cameras = {})
           /\ DOMAIN cameras # {} =>
                 /\ \E c \in DOMAIN cameras : cameras'[c].main
                 /\ editor' = EditorResource(FALSE)]_vars

\* C17: a step taken while inspection mode is off changes neither the
\* selected objects, the InspectionTarget, the ViewportRect, the dock tree
\* nor any transform, and show_ui draws no panel; only the mode, the
\* GizmoMode and the camera viewport may change.  So the selection, the
\* target and the layout found when the mode is turned on again are those
\* it was turned off with.
C17_ModeOffFreezesEditorState ==
    [][(editor.present /\ ~editor.mode)
        => /\ ui_state'.selected_entities = ui_state.selected_entities
           /\ ui_state'.selection = ui_state.selection
           /\ ui_state'.viewport_rect = ui_state.viewport_rect
           /\ ui_state'.tree = ui_state.tree
           /\ transforms' = transforms
           /\ trace'.drawn = {}
           /\ ~trace'.gizmo.interacted]_vars

\* a frame with the mode off has ended with the selection and target that
\* were made while it was on; the R key has changed the GizmoMode meanwhile
C17_Witness ==
    /\ pc = "FrameEnd"
    /\ editor.present
    /\ ~editor.mode
    /\ f1_presses = 2
    /\ Len(ui_state.selected_entities) = 2
    /\ ui_state.selection[1] = "Asset"
    /\ ui_state.tree # UiState_new_tree
    /\ ui_state.viewport_rect # Rect_NOTHING
    /\ ui_state.gizmo_mode = "Rotate"
    /\ trace.drawn = {}

\* C18: a frame with two or more of R, T, S just pressed ends with Scale
\* when S is among them and with Translate otherwise (R and T), whatever
\* the mode was before.
C18_LastPolledKeyWins ==
    [][(pc = "Update" /\ pc' # "Panicked" /\ Cardinality(trace'.kb \cap GizmoKeys) >= 2)
        => ui_state'.gizmo_mode = IF "S" \in trace'.kb THEN "Scale" ELSE "Translate"]_vars

\* R and T pressed together in the second frame that pressed F1
C18_Witness ==
    /\ pc = "PostUpdate_show_ui"
    /\ trace.kb = {"R", "T", "F1"}
    /\ f1_presses = 2
    /\ ui_state.gizmo_mode = "Translate"

\* C19: the gizmo never aborts on the selection it finds: when the one
\* selected object has no transform (it was despawned, or lost it) the
\* object is skipped, the gizmo does not interact and no transform changes;
\* a write-back happens only after the transform was read in the same call,
\* so its unwrap does not fail.
C19_GizmoSkipsStaleSelection ==
    [][(pc = "PostUpdate_show_ui" /\ "GameView" \in trace'.drawn)
        => LET g == trace'.gizmo
           IN  /\ pc' # "Panicked"
               /\ ~g.unwrap_failed
               /\ g.wrote => g.read
               /\ (Len(GizmoSaw(trace')) = 1 /\ ~transforms[GizmoSaw(trace')[1]].some) =>
                     /\ ~g.read
                     /\ ~g.interacted
                     /\ ~g.wrote
                     /\ transforms' = transforms]_vars

\* a drag in a frame whose one selected object was removed after it was
\* selected, on the orthographic path
C19_Witness ==
    /\ pc = "PostUpdate_set_camera_viewport"
    /\ trace.ev.kind = "gizmo"
    /\ trace.gizmo.path = "orthographic"
    /\ GizmoSaw(trace) = <<1>>
    /\ ~transforms[1].some
    /\ transforms[2] = Transform(8, 1, 9)

\* C20: show_ui leaves ViewportRect at the frame's rectangle when the
\* GameView tab drew and as it was when it did not (hidden behind another
\* tab, or no egui context); no other step writes it; without an egui
\* context it is still the empty rectangle it was created with; and with
\* inspection mode on set_camera_viewport sets the camera viewport from the
\* ViewportRect it finds, drawn this frame or retained.
C20_ViewportRectIsRetained ==
    /\ [][(pc = "PostUpdate_show_ui" /\ pc' # "Panicked")
            => ui_state'.viewport_rect = IF "GameView" \in trace'.drawn THEN trace'.rect ELSE ui_state.viewport_rect]_vars
    /\ [][pc # "PostUpdate_show_ui" => ui_state'.viewport_rect = ui_state.viewport_rect]_vars
    /\ [](~window.egui_context => ui_state.viewport_rect = Rect_NOTHING)
    /\ []((ViewportWasSet /\ editor.mode)
            => \A c \in MainCameras : cameras[c].viewport = CroppedViewport(ui_state.viewport_rect, ScaleFactor))

\* a frame that drew other tabs but not GameView, laid out at another
\* rectangle than the one recorded, has set the viewport from the recorded one
C20_Witness ==
    /\ ViewportWasSet
    /\ editor.mode
    /\ trace.drawn # {}
    /\ "GameView" \notin trace.drawn
    /\ trace.rect = RectXYWH(21, 5, 201, 99)
    /\ ui_state.viewport_rect = RectXYWH(20, 40, 200, 100)
    /\ \A c \in MainCameras : cameras[c].viewport = Viewport(<<U32(10), U32(20)>>, <<U32(100), U32(50)>>, <<0, 1>>)

====
